---- MODULE Spec2Model ----
(***************************************************************************)
(* Model of the fruit-spinner points award endpoint (POST handler): a      *)
(* transactional read of the user row, a conditional update guarded by     *)
(* lastPointsUpdateTimestamp ("optimistic lock"), and a bounded retry loop *)
(* with exponential backoff.                                               *)
(*                                                                         *)
(* Each award call is a process; its await points are the places where     *)
(* other calls interleave: the database read (findUnique), the point where *)
(* the read's continuation evaluates new Date() and issues the update, the *)
(* database's execution of the conditional update, and the backoff timer.  *)
(*                                                                         *)
(* The module also models the send-welcome handler and the Game            *)
(* component's fruit spinner (spinFruits and its tick loop), each under    *)
(* its own specification.                                                  *)
(***************************************************************************)
EXTENDS Integers, Sequences, FiniteSets, TLC

\* ---------------------------------------------------------------- constants
MAX_RETRIES == 3
RETRY_DELAY == 100

\* ------------------------------------------------------------------- bounds
\* Largest reading of the millisecond clock that new Date() returns.
MaxClock == 3

\* Send-welcome requests in flight at once.
MaxWelcome == 2

\* spinFruits invocations that pass the isSpinning guard.
MaxSpins == 2

\* Award calls in flight at once: one more than the retry budget, the least
\* number under which a call can lose every one of its attempts.
AllCalls == 1 .. (MAX_RETRIES + 1)

\* ------------------------------------------------------------------- values
\* A JSON body field: present with a value, or absent (undefined).
UndefinedId == [defined |-> FALSE, val |-> ""]
UndefinedPoints == [defined |-> FALSE, val |-> 0]
Str(s) == [defined |-> TRUE, val |-> s]
Num(n) == [defined |-> TRUE, val |-> n]

NoRow == [exists |-> FALSE, points |-> 0, pointsBalance |-> 0,
          lastPointsUpdateTimestamp |-> 0]

NoResponse == [status |-> 0, error |-> "", updatedPoints |-> 0,
               updatedPointsBalance |-> 0, pointsAdded |-> 0]

ErrorResponse(status, msg) ==
    [status |-> status, error |-> msg, updatedPoints |-> 0,
     updatedPointsBalance |-> 0, pointsAdded |-> 0]

SuccessResponseSwapped(updatedUser, points) ==
    [status |-> 200, error |-> "", updatedPoints |-> updatedUser.pointsBalance,
     updatedPointsBalance |-> updatedUser.pointsBalance,
     pointsAdded |-> points]

\* lines 48-57: the body of the 200 response
SuccessResponse(updatedUser, points) ==
    [status |-> 200, error |-> "", updatedPoints |-> updatedUser.points,
     updatedPointsBalance |-> updatedUser.pointsBalance,
     pointsAdded |-> points]

\* The user table before any of the modelled calls runs.  "ghost" has no row.
InitialUsers ==
    [u \in {"u1", "u2"} |->
        IF u = "u1"
        THEN [exists |-> TRUE, points |-> 100, pointsBalance |-> 100,
              lastPointsUpdateTimestamp |-> 0]
        ELSE [exists |-> TRUE, points |-> 250, pointsBalance |-> 40,
              lastPointsUpdateTimestamp |-> 0]]

VARIABLES
    db,         \* user table: telegramId -> row (its domain: the existing rows)
    now,        \* the wall clock read by new Date()
    calls,      \* award calls that are made
    req,        \* per call: the request body {telegramId, points}
    pc,         \* per call: where the handler is
    retries,    \* per call: the handler's retries counter
    dbUser,     \* per call: the row findUnique returned in this attempt
    newStamp,   \* per call: the new Date() evaluated for this attempt's update
    response,   \* per call: the HTTP response returned
    attempts,   \* per call: number of prisma.$transaction invocations so far
    version,    \* per row: number of updates committed to it so far
    readSeq,    \* per call: version of the row when this attempt read it
    firstRead,  \* per call: version of the row at the call's first read
    txOpen,     \* per call: a prisma.$transaction scope is open
    lastError,  \* per call: message of the error its catch block last caught
    logs,       \* per call: the console.error entries it wrote
    waits,      \* per call: the setTimeout delays it waited, in order
    wcalls,     \* send-welcome requests that are made
    wreq,       \* per send-welcome request: its body (JSON or not, telegramId)
    botToken,   \* process.env.BOT_TOKEN
    wpc,        \* per send-welcome request: where the handler is
    fetches,    \* per send-welcome request: outbound fetch calls made
    fetchResult,\* per send-welcome request: how the Telegram API answered
    wresponse,  \* per send-welcome request: the HTTP response returned
    gameState,  \* Game component: its useState values, as last set
    gameRender, \* Game component: the state values its committed render holds
    spins,      \* accepted spinFruits invocations, in order: their locals
    clockMs     \* the browser clock read by Date.now()

awardVars == <<db, now, calls, req, pc, retries, dbUser, newStamp, response,
               attempts, version, readSeq, firstRead, txOpen, lastError,
               logs, waits>>

welcomeVars == <<wcalls, wreq, botToken, wpc, fetches, fetchResult, wresponse>>

gameVars == <<gameState, gameRender, spins, clockMs>>

vars == <<awardVars, welcomeVars, gameVars>>

\* ------------------------------------------------------------- pure helpers
IsInvalidNoSignCheck(r) ==
    \/ ~r.telegramId.defined
    \/ r.telegramId.val = ""
    \/ ~r.points.defined

IsInvalidRejectsZero(r) ==
    \/ ~r.telegramId.defined
    \/ r.telegramId.val = ""
    \/ ~r.points.defined
    \/ r.points.val <= 0

\* line 16: !telegramId || points === undefined || points < 0
IsInvalid(r) ==
    \/ ~r.telegramId.defined
    \/ r.telegramId.val = ""
    \/ ~r.points.defined
    \/ r.points.val < 0

FindUniqueFirstRow(table, id) ==
    IF id \in DOMAIN table THEN table["u1"] ELSE NoRow

\* line 27: findUnique({ where: { telegramId } })
FindUnique(table, id) == IF id \in DOMAIN table THEN table[id] ELSE NoRow

\* lines 37-40: the update's where clause, the optimistic lock
WhereMatches(row, captured) ==
    row.lastPointsUpdateTimestamp = captured.lastPointsUpdateTimestamp

UpdateDataFromRead(row, captured, points, stamp) ==
    [exists |-> TRUE,
     points |-> captured.points + points,
     pointsBalance |-> captured.pointsBalance + points,
     lastPointsUpdateTimestamp |-> stamp]

UpdateDataPointsOnly(row, captured, points, stamp) ==
    [exists |-> TRUE,
     points |-> row.points + points,
     pointsBalance |-> row.pointsBalance,
     lastPointsUpdateTimestamp |-> stamp]

UpdateDataDeduplicated(row, captured, points, stamp) ==
    IF row.lastPointsUpdateTimestamp = stamp
    THEN row
    ELSE [exists |-> TRUE,
          points |-> row.points + points,
          pointsBalance |-> row.pointsBalance + points,
          lastPointsUpdateTimestamp |-> stamp]

\* lines 41-45: atomic increments of the stored row and the new stamp
UpdateData(row, captured, points, stamp) ==
    [exists |-> TRUE,
     points |-> row.points + points,
     pointsBalance |-> row.pointsBalance + points,
     lastPointsUpdateTimestamp |-> stamp]

\* line 32: the error the transaction callback throws for an absent row;
\* lines 36-46: the error prisma's update throws when no row matches its where;
\* lines 26-55: an error of the storage gateway itself (connection lost)
UserNotFoundError == "User not found"
RecordNotFoundError == "Record to update not found"
GatewayUnavailableError == "Can't reach database server"

\* lines 67 and 79: the two console.error entries of the handler
MaxRetriesLog == "Max retries reached for fruit spinner points:"
ProcessingLog == "Error processing fruit spinner points:"

IsUserNotFoundNever(msg) == msg = "user not found"

IsUserNotFoundAnyError(msg) == msg # ""

\* line 59: error.message.includes('User not found')
IsUserNotFound(msg) == msg = "User not found"

RetriesExhaustedEarly(r) == r >= MAX_RETRIES - 2

RetriesExhaustedLate(r) == r >= MAX_RETRIES

\* line 66: retries >= MAX_RETRIES - 1
RetriesExhausted(r) == r >= MAX_RETRIES - 1

\* line 24: while (retries < MAX_RETRIES)
LoopTest(r) == r < MAX_RETRIES

BackoffDelayBeforeIncrement(r) == RETRY_DELAY * (2 ^ (r - 1))

\* line 75: RETRY_DELAY * Math.pow(2, retries)
BackoffDelay(r) == RETRY_DELAY * (2 ^ r)

LogErrorDropped(log, entry) == log

\* lines 67 and 79: console.error(entry, error)
LogError(log, entry) == Append(log, entry)

Id(c) == req[c].telegramId.val
Points(c) == req[c].points.val

\* lines 26-55: the transaction callback's locals (dbUser, the update's
\* arguments) live only until the transaction commits or rolls back
EndScope(c) ==
    /\ dbUser' = [dbUser EXCEPT ![c] = NoRow]
    /\ newStamp' = [newStamp EXCEPT ![c] = 0]
    /\ readSeq' = [readSeq EXCEPT ![c] = 0]

TransactionLeftOpen(open) == open

\* lines 26-55: prisma.$transaction commits when its callback returns and
\* rolls back when it throws; either way the scope is closed before the
\* handler continues at line 57 or in the catch block
TransactionClosed(open) == FALSE

\* lines 58-76: the catch block of one attempt
Catch(c, msg) ==
    /\ txOpen' = [txOpen EXCEPT ![c] = TransactionClosed(@)]
    /\ lastError' = [lastError EXCEPT ![c] = msg]
    /\ IF IsUserNotFound(msg)
       THEN /\ response' = [response EXCEPT ![c] =
                                ErrorResponse(404, "User not found")]
            /\ pc' = [pc EXCEPT ![c] = "done"]
            /\ UNCHANGED <<retries, logs, waits>>
       ELSE IF RetriesExhausted(retries[c])
       THEN /\ logs' = [logs EXCEPT ![c] = LogError(@, MaxRetriesLog)]
            /\ response' = [response EXCEPT ![c] =
                 ErrorResponse(500, "Failed to add points after multiple attempts")]
            /\ pc' = [pc EXCEPT ![c] = "done"]
            /\ UNCHANGED <<retries, waits>>
       ELSE /\ retries' = [retries EXCEPT ![c] = @ + 1]
            /\ waits' = [waits EXCEPT ![c] =
                             Append(@, BackoffDelay(retries[c] + 1))]
            /\ pc' = [pc EXCEPT ![c] = "backoff"]
            /\ UNCHANGED <<response, logs>>

\* ------------------------------------------------------------------ actions
\* lines 14-27: the body is parsed and validated; a valid request enters the
\* loop and calls prisma.$transaction, whose callback sends findUnique (one
\* synchronous block of the handler)
Validate(c) ==
    /\ c \in calls
    /\ pc[c] = "start"
    /\ IF IsInvalid(req[c])
       THEN /\ response' = [response EXCEPT ![c] =
                                ErrorResponse(400, "Invalid request data")]
            /\ pc' = [pc EXCEPT ![c] = "done"]
            /\ UNCHANGED <<retries, attempts, txOpen>>
       ELSE /\ retries' = [retries EXCEPT ![c] = 0]
            /\ IF LoopTest(0)
               THEN /\ attempts' = [attempts EXCEPT ![c] = @ + 1]
                    /\ txOpen' = [txOpen EXCEPT ![c] = TRUE]
                    /\ pc' = [pc EXCEPT ![c] = "findUnique"]
               ELSE /\ pc' = [pc EXCEPT ![c] = "done"]
                    /\ UNCHANGED <<attempts, txOpen>>
            /\ UNCHANGED response
    /\ UNCHANGED <<db, now, calls, req, dbUser, newStamp, version, readSeq,
                   firstRead, lastError, logs, waits>>
    /\ UNCHANGED <<welcomeVars, gameVars>>

\* lines 27-33 and 58-76: the database reads the row; an absent row throws
\* 'User not found', the transaction rolls back and the catch block runs
ReadUser(c) ==
    /\ c \in calls
    /\ pc[c] = "findUnique"
    /\ LET row == FindUnique(db, Id(c)) IN
       IF ~row.exists
       THEN /\ Catch(c, UserNotFoundError)
            /\ UNCHANGED <<dbUser, readSeq, firstRead>>
       ELSE /\ dbUser' = [dbUser EXCEPT ![c] = row]
            /\ readSeq' = [readSeq EXCEPT ![c] = version[Id(c)]]
            /\ firstRead' = [firstRead EXCEPT ![c] =
                                IF attempts[c] = 1 THEN version[Id(c)] ELSE @]
            /\ pc' = [pc EXCEPT ![c] = "update"]
            /\ UNCHANGED <<response, retries, txOpen, lastError, logs, waits>>
    /\ UNCHANGED <<db, now, calls, req, newStamp, attempts, version>>
    /\ UNCHANGED <<welcomeVars, gameVars>>

\* lines 36-46: the read's continuation builds the update's arguments
\* (new Date() is evaluated here) and sends the update
IssueUpdate(c) ==
    /\ c \in calls
    /\ pc[c] = "update"
    /\ newStamp' = [newStamp EXCEPT ![c] = now]
    /\ pc' = [pc EXCEPT ![c] = "commit"]
    /\ UNCHANGED <<db, now, calls, req, retries, dbUser, response, attempts,
                   version, readSeq, firstRead, txOpen, lastError, logs, waits>>
    /\ UNCHANGED <<welcomeVars, gameVars>>

\* lines 36-57: the database finds the row matching the where clause, applies
\* the update and the transaction commits; the handler returns the result
CommitUpdate(c) ==
    /\ c \in calls
    /\ pc[c] = "commit"
    /\ WhereMatches(db[Id(c)], dbUser[c])
    /\ LET updatedUser == UpdateData(db[Id(c)], dbUser[c], Points(c),
                                     newStamp[c]) IN
       /\ db' = [db EXCEPT ![Id(c)] = updatedUser]
       /\ response' = [response EXCEPT ![c] =
                           SuccessResponse(updatedUser, Points(c))]
    /\ version' = [version EXCEPT ![Id(c)] = @ + 1]
    /\ pc' = [pc EXCEPT ![c] = "done"]
    /\ txOpen' = [txOpen EXCEPT ![c] = TransactionClosed(@)]
    /\ EndScope(c)
    /\ UNCHANGED <<now, calls, req, retries, attempts, firstRead, lastError,
                   logs, waits>>
    /\ UNCHANGED <<welcomeVars, gameVars>>

\* lines 36-46 and 58-75: no row matches the where clause, the update throws,
\* the transaction rolls back; the handler gives up, or counts a retry and
\* starts the backoff timer
FailUpdate(c) ==
    /\ c \in calls
    /\ pc[c] = "commit"
    /\ ~WhereMatches(db[Id(c)], dbUser[c])
    /\ Catch(c, RecordNotFoundError)
    /\ EndScope(c)
    /\ UNCHANGED <<db, now, calls, req, attempts, version, firstRead>>
    /\ UNCHANGED <<welcomeVars, gameVars>>

\* lines 75, 24-27: the backoff timer fires; the loop test passes and the
\* next prisma.$transaction is called
BackoffDone(c) ==
    /\ c \in calls
    /\ pc[c] = "backoff"
    /\ IF LoopTest(retries[c])
       THEN /\ attempts' = [attempts EXCEPT ![c] = @ + 1]
            /\ txOpen' = [txOpen EXCEPT ![c] = TRUE]
            /\ pc' = [pc EXCEPT ![c] = "findUnique"]
       ELSE /\ pc' = [pc EXCEPT ![c] = "done"]
            /\ UNCHANGED <<attempts, txOpen>>
    /\ UNCHANGED <<db, now, calls, req, retries, dbUser, newStamp, response,
                   version, readSeq, firstRead, lastError, logs, waits>>
    /\ UNCHANGED <<welcomeVars, gameVars>>

\* the millisecond clock advances
Tick ==
    /\ now < MaxClock
    /\ now' = now + 1
    /\ UNCHANGED <<db, calls, req, pc, retries, dbUser, newStamp, response,
                   attempts, version, readSeq, firstRead, txOpen, lastError,
                   logs, waits>>
    /\ UNCHANGED <<welcomeVars, gameVars>>

\* lines 26-55 and 58-76: the storage gateway fails while the transaction
\* waits for it (the read or the update); the transaction rolls back and the
\* catch block runs
GatewayError(c) ==
    /\ c \in calls
    /\ pc[c] \in {"findUnique", "commit"}
    /\ Catch(c, GatewayUnavailableError)
    /\ EndScope(c)
    /\ UNCHANGED <<db, now, calls, req, attempts, version, firstRead>>
    /\ UNCHANGED <<welcomeVars, gameVars>>

\* lines 14 and 78-84: req.json() rejects (the body is not JSON); the outer
\* catch logs and answers 500
BodyParseError(c) ==
    /\ c \in calls
    /\ pc[c] = "start"
    /\ logs' = [logs EXCEPT ![c] = LogError(@, ProcessingLog)]
    /\ response' = [response EXCEPT ![c] =
                        ErrorResponse(500, "Internal server error")]
    /\ pc' = [pc EXCEPT ![c] = "done"]
    /\ UNCHANGED <<db, now, calls, req, retries, dbUser, newStamp, attempts,
                   version, readSeq, firstRead, txOpen, lastError, waits>>
    /\ UNCHANGED <<welcomeVars, gameVars>>

Step(c) ==
    \/ Validate(c)
    \/ ReadUser(c)
    \/ IssueUpdate(c)
    \/ CommitUpdate(c)
    \/ FailUpdate(c)
    \/ BackoffDone(c)

Next ==
    \/ \E c \in AllCalls : Validate(c)
    \/ \E c \in AllCalls : ReadUser(c)
    \/ \E c \in AllCalls : IssueUpdate(c)
    \/ \E c \in AllCalls : CommitUpdate(c)
    \/ \E c \in AllCalls : FailUpdate(c)
    \/ \E c \in AllCalls : BackoffDone(c)
    \/ Tick

\* The award handler with the failures that are not version-stamp conflicts.
FaultStep(c) ==
    \/ Step(c)
    \/ GatewayError(c)
    \/ BodyParseError(c)

NextFaults ==
    \/ Next
    \/ \E c \in AllCalls : GatewayError(c)
    \/ \E c \in AllCalls : BodyParseError(c)

\* ------------------------------------------------- send-welcome handler
\* src/app/api/send-welcome/route.ts
WelcomeCalls == 1 .. MaxWelcome

WelcomeResponse(status, msg) == [status |-> status, error |-> msg]

\* line 5: the request body, when it is JSON, and its telegramId field
WelcomeBody(id) == [json |-> TRUE, telegramId |-> id]
NotJsonBody == [json |-> FALSE, telegramId |-> UndefinedId]

\* lines 7 and 13: !telegramId, !botToken
Falsy(v) == ~v.defined \/ v.val = ""

FetchCountRetried(n) == n + 2

\* line 27: one fetch call
FetchCount(n) == n + 1

\* lines 5-37 and 46-49: the body is parsed (a body that is not JSON throws
\* into the catch), telegramId and BOT_TOKEN are checked, and the message is
\* sent with one fetch
WelcomeStart(w) ==
    /\ w \in wcalls
    /\ wpc[w] = "start"
    /\ IF ~wreq[w].json
       THEN /\ wresponse' = [wresponse EXCEPT ![w] =
                                 WelcomeResponse(500, "Internal server error")]
            /\ wpc' = [wpc EXCEPT ![w] = "done"]
            /\ UNCHANGED fetches
       ELSE IF Falsy(wreq[w].telegramId)
       THEN /\ wresponse' = [wresponse EXCEPT ![w] =
                                 WelcomeResponse(400, "Missing telegramId")]
            /\ wpc' = [wpc EXCEPT ![w] = "done"]
            /\ UNCHANGED fetches
       ELSE IF Falsy(botToken)
       THEN /\ wresponse' = [wresponse EXCEPT ![w] =
                                 WelcomeResponse(500, "BOT_TOKEN not configured")]
            /\ wpc' = [wpc EXCEPT ![w] = "done"]
            /\ UNCHANGED fetches
       ELSE /\ fetches' = [fetches EXCEPT ![w] = FetchCount(@)]
            /\ wpc' = [wpc EXCEPT ![w] = "fetch"]
            /\ UNCHANGED wresponse
    /\ UNCHANGED <<wcalls, wreq, botToken, fetchResult>>
    /\ UNCHANGED <<awardVars, gameVars>>

\* lines 27-45: the Telegram API answers ok
FetchOk(w) ==
    /\ w \in wcalls
    /\ wpc[w] = "fetch"
    /\ wresponse' = [wresponse EXCEPT ![w] = WelcomeResponse(200, "")]
    /\ fetchResult' = [fetchResult EXCEPT ![w] = "ok"]
    /\ wpc' = [wpc EXCEPT ![w] = "done"]
    /\ UNCHANGED <<wcalls, wreq, botToken, fetches>>
    /\ UNCHANGED <<awardVars, gameVars>>

\* lines 39-43 and 46-49: the Telegram API answers not ok; the error body is
\* read and logged, or reading it throws into the catch
FetchNotOk(w) ==
    /\ w \in wcalls
    /\ wpc[w] = "fetch"
    /\ \E bodyIsJson \in BOOLEAN :
          wresponse' = [wresponse EXCEPT ![w] =
              IF bodyIsJson
              THEN WelcomeResponse(500, "Failed to send message")
              ELSE WelcomeResponse(500, "Internal server error")]
    /\ fetchResult' = [fetchResult EXCEPT ![w] = "not ok"]
    /\ wpc' = [wpc EXCEPT ![w] = "done"]
    /\ UNCHANGED <<wcalls, wreq, botToken, fetches>>
    /\ UNCHANGED <<awardVars, gameVars>>

\* lines 27 and 46-49: fetch rejects (network error); the catch answers 500
FetchThrows(w) ==
    /\ w \in wcalls
    /\ wpc[w] = "fetch"
    /\ wresponse' = [wresponse EXCEPT ![w] =
                         WelcomeResponse(500, "Internal server error")]
    /\ fetchResult' = [fetchResult EXCEPT ![w] = "threw"]
    /\ wpc' = [wpc EXCEPT ![w] = "done"]
    /\ UNCHANGED <<wcalls, wreq, botToken, fetches>>
    /\ UNCHANGED <<awardVars, gameVars>>

NextWelcome ==
    \/ \E w \in WelcomeCalls : WelcomeStart(w)
    \/ \E w \in WelcomeCalls : FetchOk(w)
    \/ \E w \in WelcomeCalls : FetchNotOk(w)
    \/ \E w \in WelcomeCalls : FetchThrows(w)

\* ------------------------------------------------------ Game fruit spinner
\* src/unnamed/part_000, components/Game.tsx
\* line 254
minDurationMs == 5000

\* line 296: the reward banner is hidden this long after a spin lands
RewardMs == 3000

\* lines 206-217 (the list is indexed from 0 in the source: Fruit(i))
fruits ==
    << [name |-> "Cherry",     points |-> 1,  isLoser |-> FALSE],
       [name |-> "Lemon",      points |-> 2,  isLoser |-> FALSE],
       [name |-> "Grape",      points |-> 3,  isLoser |-> FALSE],
       [name |-> "Apple",      points |-> 5,  isLoser |-> FALSE],
       [name |-> "Strawberry", points |-> 8,  isLoser |-> FALSE],
       [name |-> "Peach",      points |-> 12, isLoser |-> FALSE],
       [name |-> "Watermelon", points |-> 15, isLoser |-> FALSE],
       [name |-> "Pineapple",  points |-> 20, isLoser |-> FALSE],
       [name |-> "Diamond",    points |-> 50, isLoser |-> FALSE],
       [name |-> "You Lost",   points |-> 0,  isLoser |-> TRUE] >>

Fruit(i) == fruits[i + 1]

\* lines 222-234: the weight of a fruit, in tenths
Weight(f) ==
    IF f.isLoser THEN 220
    ELSE IF f.points <= 1 THEN 180
    ELSE IF f.points = 2 THEN 140
    ELSE IF f.points = 3 THEN 100
    ELSE IF f.points = 5 THEN 60
    ELSE IF f.points = 8 THEN 40
    ELSE IF f.points = 12 THEN 30
    ELSE IF f.points = 15 THEN 20
    ELSE IF f.points = 20 THEN 12
    ELSE IF f.points = 50 THEN 6
    ELSE 10

\* line 235
RECURSIVE TotalWeight(_)
TotalWeight(i) ==
    IF i >= Len(fruits) THEN 0 ELSE Weight(Fruit(i)) + TotalWeight(i + 1)

\* lines 237-241: the first index at which the roll, less the weights so
\* far, is not positive; the last index when there is none
RECURSIVE PickFrom(_, _)
PickFrom(roll, i) ==
    IF i >= Len(fruits) THEN Len(fruits) - 1
    ELSE IF roll - Weight(Fruit(i)) <= 0 THEN i
    ELSE PickFrom(roll - Weight(Fruit(i)), i + 1)

\* lines 221-242, with roll the value of Math.random() * total, in tenths
pickTargetFruitIndexWeighted(roll) == PickFrom(roll, 0)

\* line 236: a roll that picks Strawberry, the fruit just before the
\* position at which the minimum duration is reached, and one that picks
\* You Lost
Rolls == {r \in {500, 700} : r < TotalWeight(0)}

\* line 267: Math.min(1, elapsed / minDurationMs), in thousandths
Progress(elapsed) ==
    IF elapsed >= minDurationMs THEN 1000
    ELSE (elapsed * 1000) \div minDurationMs

\* lines 270-279
Delay(progress) ==
    IF progress < 600 THEN 35
    ELSE IF progress < 850 THEN 90
    ELSE IF progress < 950 THEN 160
    ELSE 320

CanStopSlowPhase(elapsed, delay) == delay >= 160

\* line 282
CanStop(elapsed, delay) == elapsed >= minDurationMs /\ delay >= 160

\* lines 299-308: the number of clickTriggered() calls of a landing
ClickCount(wonFruit) == IF ~wonFruit.isLoser THEN wonFruit.points ELSE 0

\* setTimeout: a timer that is not set, a timer set at a clock reading
NoTimer == [set |-> FALSE, at |-> 0]
SetTimeout(delay) == [set |-> TRUE, at |-> clockMs + delay]
Due(timer) == timer.set /\ clockMs >= timer.at

Spins == 1 .. MaxSpins

\* lines 125-128: the initial useState values
InitialState ==
    [isSpinning |-> FALSE, selectedFruit |-> 0, showReward |-> FALSE,
     lastWin |-> [fruit |-> "", points |-> 0, isLoser |-> FALSE, set |-> FALSE]]

\* lines 244-258: the locals of a spinFruits invocation that passed the guard
NewSpin ==
    [pc |-> "ensureAudio", targetFruit |-> 0, startTime |-> 0,
     currentPosition |-> 0, timeoutId |-> NoTimer, rewardTimer |-> NoTimer,
     clicks |-> 0, stopElapsed |-> 0, lateTicks |-> 0]

\* lines 244-247: a spinFruits invocation, up to its await. The function is
\* the one the committed render created, so the isSpinning it tests is that
\* render's value.
SpinFruits ==
    /\ IF gameRender.isSpinning
       THEN UNCHANGED <<gameState, spins>>
       ELSE /\ Len(spins) < MaxSpins
            /\ gameState' = [gameState EXCEPT !.isSpinning = TRUE]
            /\ spins' = Append(spins, NewSpin)
    /\ UNCHANGED <<gameRender, clockMs, awardVars, welcomeVars>>

\* lines 247-258 and 317: ensureAudio() has settled; the target is picked,
\* the start time is read and the first tick is scheduled
SpinStart(l) ==
    /\ l \in DOMAIN spins
    /\ spins[l].pc = "ensureAudio"
    /\ \E roll \in Rolls :
          spins' = [spins EXCEPT ![l] =
                       [@ EXCEPT !.pc = "ticking",
                                 !.targetFruit =
                                     pickTargetFruitIndexWeighted(roll),
                                 !.startTime = clockMs,
                                 !.currentPosition = 0,
                                 !.timeoutId = SetTimeout(0)]]
    /\ UNCHANGED <<gameState, gameRender, clockMs, awardVars, welcomeVars>>

\* lines 260-314: one run of tick
SpinTick(l) ==
    /\ l \in DOMAIN spins
    /\ spins[l].pc = "ticking"
    /\ Due(spins[l].timeoutId)
    /\ LET s == spins[l]
           position == (s.currentPosition + 1) % Len(fruits)
           elapsed == clockMs - s.startTime
           delay == Delay(Progress(elapsed))
           late == s.lateTicks + (IF elapsed >= minDurationMs THEN 1 ELSE 0)
       IN  IF CanStop(elapsed, delay) /\ position = s.targetFruit
           THEN LET wonFruit == Fruit(s.targetFruit) IN
                /\ gameState' =
                      [gameState EXCEPT
                          !.isSpinning = FALSE,
                          !.selectedFruit = s.targetFruit,
                          !.lastWin = [fruit |-> wonFruit.name,
                                       points |-> wonFruit.points,
                                       isLoser |-> wonFruit.isLoser,
                                       set |-> TRUE],
                          !.showReward = TRUE]
                /\ spins' = [spins EXCEPT ![l] =
                                [@ EXCEPT !.pc = "landed",
                                          !.currentPosition = position,
                                          !.timeoutId = NoTimer,
                                          !.rewardTimer = SetTimeout(RewardMs),
                                          !.clicks = ClickCount(wonFruit),
                                          !.stopElapsed = elapsed,
                                          !.lateTicks = late]]
           ELSE /\ gameState' = [gameState EXCEPT !.selectedFruit = position]
                /\ spins' = [spins EXCEPT ![l] =
                                [@ EXCEPT !.currentPosition = position,
                                          !.timeoutId = SetTimeout(delay),
                                          !.lateTicks = late]]
    /\ UNCHANGED <<gameRender, clockMs, awardVars, welcomeVars>>

\* line 296: the timer that hides the reward banner fires
HideReward(l) ==
    /\ l \in DOMAIN spins
    /\ Due(spins[l].rewardTimer)
    /\ gameState' = [gameState EXCEPT !.showReward = FALSE]
    /\ spins' = [spins EXCEPT ![l] = [@ EXCEPT !.rewardTimer = NoTimer]]
    /\ UNCHANGED <<gameRender, clockMs, awardVars, welcomeVars>>

\* lines 123-128 and 380-390: React renders the component with the state
\* values as last set; the button and its onClick see these values
Render ==
    /\ gameRender # gameState
    /\ gameRender' = gameState
    /\ UNCHANGED <<gameState, spins, clockMs, awardVars, welcomeVars>>

PendingTimers ==
    {t \in {spins[l].timeoutId : l \in DOMAIN spins}
             \cup {spins[l].rewardTimer : l \in DOMAIN spins} : t.set}

RECURSIVE Earliest(_)
Earliest(timers) ==
    LET t == CHOOSE x \in timers : TRUE
    IN  IF timers = {t} THEN t.at
        ELSE LET rest == Earliest(timers \ {t})
             IN  IF t.at < rest THEN t.at ELSE rest

\* The browser clock moves on to the next timer, once the event loop has
\* run what is ready: the pending render, the continuations of spinFruits
\* and the timers that are due.
Advance ==
    /\ gameRender = gameState
    /\ \A l \in DOMAIN spins : spins[l].pc # "ensureAudio"
    /\ PendingTimers # {}
    /\ \A t \in PendingTimers : clockMs < t.at
    /\ clockMs' = Earliest(PendingTimers)
    /\ UNCHANGED <<gameState, gameRender, spins, awardVars, welcomeVars>>

NextSpin ==
    \/ SpinFruits
    \/ \E l \in Spins : SpinStart(l)
    \/ \E l \in Spins : SpinTick(l)
    \/ \E l \in Spins : HideReward(l)
    \/ Render
    \/ Advance

\* The component as mounted: no spin yet.
InitGame ==
    /\ gameState = InitialState
    /\ gameRender = InitialState
    /\ spins = <<>>
    /\ clockMs = 0

\* ----------------------------------------------------------- initial states
WelcomeIdle ==
    /\ wpc = [w \in WelcomeCalls |-> "start"]
    /\ fetches = [w \in WelcomeCalls |-> 0]
    /\ fetchResult = [w \in WelcomeCalls |-> "none"]
    /\ wresponse = [w \in WelcomeCalls |-> WelcomeResponse(0, "")]

\* No send-welcome request is made.
NoWelcome ==
    /\ WelcomeIdle
    /\ wcalls = {}
    /\ wreq = [w \in WelcomeCalls |-> WelcomeBody(Str("u1"))]
    /\ botToken = Str("token")

Award(id, points) == [telegramId |-> Str(id), points |-> Num(points)]

\* The awards of the contention scenario: all on user u1, with deltas whose
\* subset sums are pairwise different.
ContentionDeltas == <<10, 15, 20, 40>>

InitAward(n) ==
    /\ db = InitialUsers
    /\ now = 0
    /\ calls = 1 .. n
    /\ pc = [c \in AllCalls |-> "start"]
    /\ retries = [c \in AllCalls |-> 0]
    /\ dbUser = [c \in AllCalls |-> NoRow]
    /\ newStamp = [c \in AllCalls |-> 0]
    /\ response = [c \in AllCalls |-> NoResponse]
    /\ attempts = [c \in AllCalls |-> 0]
    /\ version = [u \in DOMAIN InitialUsers |-> 0]
    /\ readSeq = [c \in AllCalls |-> 0]
    /\ firstRead = [c \in AllCalls |-> 0]
    /\ txOpen = [c \in AllCalls |-> FALSE]
    /\ lastError = [c \in AllCalls |-> ""]
    /\ logs = [c \in AllCalls |-> <<>>]
    /\ waits = [c \in AllCalls |-> <<>>]

InitCalls(n) == InitAward(n) /\ NoWelcome /\ InitGame

\* Up to MAX_RETRIES + 1 concurrent awards on the same existing user.
InitContention ==
    /\ \E n \in 1 .. (MAX_RETRIES + 1) : InitCalls(n)
    /\ req = [c \in AllCalls |-> Award("u1", ContentionDeltas[c])]

\* Request bodies of every shape: telegramId missing, empty, of a user
\* without a row, of an existing user; points missing, negative, zero, positive.
TelegramIds == {UndefinedId, Str(""), Str("ghost"), Str("u1"), Str("u2")}
PointsValues == {UndefinedPoints, Num(-5), Num(0), Num(20)}
Requests == [telegramId : TelegramIds, points : PointsValues]

\* One call, or two concurrent calls, with arbitrary request bodies.
InitMixed ==
    /\ \E n \in 1 .. 2 : InitCalls(n)
    /\ \E r1 \in Requests, r2 \in Requests :
          req = [c \in AllCalls |->
                    IF c = 1 THEN r1
                    ELSE IF c = 2 /\ c \in calls THEN r2
                    ELSE Award("u1", ContentionDeltas[c])]

Init == InitContention \/ InitMixed

\* The award handler when the gateway or the request body can fail.
SpecFaults == InitMixed /\ [][NextFaults]_vars

SpecFaultsFair ==
    /\ InitMixed
    /\ [][NextFaults]_vars
    /\ \A c \in AllCalls : WF_vars(FaultStep(c))

\* Send-welcome requests with every shape of telegramId and BOT_TOKEN; no
\* award call is made.
WelcomeIds == {UndefinedId, Str(""), Str("u1")}
WelcomeBodies == {WelcomeBody(id) : id \in WelcomeIds} \cup {NotJsonBody}
BotTokens == {UndefinedId, Str(""), Str("token")}

InitWelcome ==
    /\ InitAward(0)
    /\ req = [c \in AllCalls |-> Award("u1", ContentionDeltas[c])]
    /\ InitGame
    /\ WelcomeIdle
    /\ \E n \in 1 .. MaxWelcome : wcalls = 1 .. n
    /\ wreq \in [WelcomeCalls -> WelcomeBodies]
    /\ \A w \in WelcomeCalls \ wcalls : wreq[w] = WelcomeBody(Str("u1"))
    /\ botToken \in BotTokens

SpecWelcome == InitWelcome /\ [][NextWelcome]_vars

Spec == Init /\ [][Next]_vars

\* Concurrent awards on the same existing user, where the event loop runs
\* every pending continuation, the database answers every query and every
\* backoff timer fires.
SpecFair ==
    /\ InitContention
    /\ [][Next]_vars
    /\ \A c \in AllCalls : WF_vars(Step(c))

\* The Game component alone: no award call and no send-welcome request is
\* made.
InitSpin ==
    /\ InitCalls(0)
    /\ req = [c \in AllCalls |-> Award("u1", ContentionDeltas[c])]

SpecSpin == InitSpin /\ [][NextSpin]_vars

\* The event loop runs every continuation and timer that is ready, React
\* renders every state change, and the clock moves on.
SpecSpinFair ==
    /\ InitSpin
    /\ [][NextSpin]_vars
    /\ WF_vars(Render)
    /\ WF_vars(Advance)
    /\ \A l \in Spins :
          WF_vars(SpinStart(l)) /\ WF_vars(SpinTick(l)) /\ WF_vars(HideReward(l))

\* --------------------------------------------------------------- properties
RECURSIVE SumPoints(_)
SumPoints(S) ==
    IF S = {} THEN 0
    ELSE LET c == CHOOSE x \in S : TRUE IN Points(c) + SumPoints(S \ {c})

\* The request shapes the claims speak of, stated from the request body.
Malformed(r) ==
    \/ r.telegramId = UndefinedId
    \/ r.telegramId = Str("")
    \/ r.points = UndefinedPoints
    \/ (r.points.defined /\ r.points.val < 0)

AllDone == \A c \in calls : pc[c] = "done"
Succeeded(c) == response[c].status = 200
Exhausted(c) ==
    response[c] = ErrorResponse(500, "Failed to add points after multiple attempts")
SucceededOn(u) ==
    {c \in calls : Succeeded(c) /\ ~Malformed(req[c]) /\ Id(c) = u}
OnExistingUser(c) == ~Malformed(req[c]) /\ Id(c) \in DOMAIN InitialUsers
SameKeyAwards ==
    \A c \in calls : OnExistingUser(c) /\ Id(c) = Id(1)

\* C1: once every call has returned, each row's pointsBalance and points are
\* the initial values plus the deltas of exactly the calls that returned
\* success; a call that returned the 500 response contributed nothing.
C1_SuccessfulAwardsCounted ==
    AllDone =>
        \A u \in DOMAIN db :
            /\ db[u].pointsBalance =
                   InitialUsers[u].pointsBalance + SumPoints(SucceededOn(u))
            /\ db[u].points = InitialUsers[u].points + SumPoints(SucceededOn(u))

C1_Witness ==
    /\ AllDone
    /\ \E c \in calls : Exhausted(c)
    /\ Cardinality(SucceededOn("u1")) = MAX_RETRIES
    /\ db["u1"].pointsBalance > InitialUsers["u1"].pointsBalance

\* C2: two concurrent awards of 10 and 15 on pointsBalance 100 both succeed
\* and leave 125, and when both read the row before either commits, at least
\* one of them makes more than one transaction attempt.
TwoAwardScenario ==
    /\ calls = {1, 2}
    /\ req[1] = Award("u1", 10)
    /\ req[2] = Award("u1", 15)

C2_TwoAwardsRetryOnRace ==
    (TwoAwardScenario /\ AllDone) =>
        /\ Succeeded(1) /\ Succeeded(2)
        /\ db["u1"].pointsBalance = 125
        /\ (firstRead[1] = 0 /\ firstRead[2] = 0) =>
               \E c \in calls : attempts[c] > 1

\* C3 as stated: N concurrent awards on the same existing key all return
\* success, for every N.
C3_AllCallsSucceed ==
    (SameKeyAwards /\ AllDone) => \A c \in calls : Succeeded(c)

\* C3 amended: up to MAX_RETRIES concurrent awards on the same existing key
\* all eventually commit and return success.
C3_WithinBudgetAllSucceed ==
    (Cardinality(calls) <= MAX_RETRIES)
        => <>(\A c \in calls : pc[c] = "done" /\ Succeeded(c))

C3_Witness ==
    /\ Cardinality(calls) = MAX_RETRIES
    /\ \A c \in calls : pc[c] = "done" /\ Succeeded(c)
    /\ \E c \in calls : attempts[c] = MAX_RETRIES

\* C4: an update commits only when no other update was committed to the row
\* since this attempt read it.
C4_StaleReadNeverCommits ==
    [][\A c \in AllCalls :
          (pc[c] = "commit" /\ Succeeded(c)')
              => readSeq[c] = version[Id(c)]]_vars

\* C5: every committed update changes the row's lastPointsUpdateTimestamp.
C5_CommitChangesStamp ==
    [][\A u \in DOMAIN db :
          version'[u] # version[u]
              => db'[u].lastPointsUpdateTimestamp
                     # db[u].lastPointsUpdateTimestamp]_vars

\* C6: a single valid award on an existing user, with nothing else running,
\* succeeds on its first attempt, adds exactly the requested points to points
\* and pointsBalance, and reports the new totals and the points added.
C6_SingleAwardExact ==
    (calls = {1} /\ OnExistingUser(1) /\ pc[1] = "done") =>
        LET before == InitialUsers[Id(1)] IN
        /\ attempts[1] = 1
        /\ response[1] =
               [status |-> 200, error |-> "",
                updatedPoints |-> before.points + Points(1),
                updatedPointsBalance |-> before.pointsBalance + Points(1),
                pointsAdded |-> Points(1)]
        /\ db[Id(1)].points = before.points + Points(1)
        /\ db[Id(1)].pointsBalance = before.pointsBalance + Points(1)

C6_Witness ==
    /\ calls = {1}
    /\ req[1] = [telegramId |-> Str("u1"), points |-> Num(20)]
    /\ pc[1] = "done"
    /\ response[1].updatedPoints = 120
    /\ response[1].updatedPointsBalance = 120
    /\ response[1].pointsAdded = 20

\* C7: in every reachable state the difference points - pointsBalance of
\* every user is the one it started with.
C7_LockStep ==
    \A u \in DOMAIN db :
        db[u].points - db[u].pointsBalance =
            InitialUsers[u].points - InitialUsers[u].pointsBalance

C7_Witness ==
    /\ version["u2"] = 2
    /\ db["u2"].points = InitialUsers["u2"].points + 40

\* C8: an award for a telegramId without a row answers 404 'User not found'
\* after exactly one transaction attempt and no retry, none of its steps
\* changes storage, and no row is created.
GhostCall(c) ==
    c \in calls /\ ~Malformed(req[c]) /\ Id(c) \notin DOMAIN InitialUsers

C8_UserNotFoundOnce ==
    /\ [](/\ DOMAIN db = DOMAIN InitialUsers
          /\ \A c \in AllCalls :
                GhostCall(c) =>
                    /\ pc[c] \in {"start", "findUnique", "done"}
                    /\ attempts[c] <= 1 /\ retries[c] = 0
                    /\ pc[c] = "done" =>
                          /\ response[c] = ErrorResponse(404, "User not found")
                          /\ attempts[c] = 1)
    /\ [][\A c \in AllCalls :
             (GhostCall(c) /\ pc'[c] # pc[c]) => db' = db]_vars

C8_Witness ==
    \E c \in calls, d \in calls :
        /\ GhostCall(c) /\ pc[c] = "done" /\ response[c].status = 404
        /\ OnExistingUser(d) /\ Succeeded(d)

\* C9: a request without telegramId or with an empty one, or without points
\* or with negative points, answers 400 'Invalid request data' without any
\* transaction attempt, and its handling leaves storage unchanged.
C9_InvalidRequestRejected ==
    /\ [](\A c \in calls :
             Malformed(req[c]) =>
                 /\ pc[c] \in {"start", "done"}
                 /\ attempts[c] = 0
                 /\ pc[c] = "done" =>
                        response[c] = ErrorResponse(400, "Invalid request data"))
    /\ [][\A c \in calls :
             (Malformed(req[c]) /\ pc'[c] # pc[c]) => db' = db]_vars

C9_Witness ==
    \E c \in calls :
        /\ req[c] = [telegramId |-> Str("u1"), points |-> Num(-5)]
        /\ pc[c] = "done"
        /\ response[c].status = 400
        /\ db = InitialUsers

\* C10: a call makes at most 3 transaction attempts; a failed attempt ends the
\* call with the exhausted-retries 500 response exactly when it is the third,
\* and a failed first or second attempt is followed by another attempt.
FailedAttempt(c) == pc[c] = "commit" /\ pc'[c] # pc[c] /\ ~Succeeded(c)'

C10_ThreeAttempts ==
    /\ [](\A c \in calls :
             /\ attempts[c] <= 3
             /\ Exhausted(c) => attempts[c] = 3
             /\ pc[c] = "backoff" => attempts[c] < 3)
    /\ [][\A c \in AllCalls :
             /\ FailedAttempt(c) =>
                    /\ (attempts[c] = 3) <=> Exhausted(c)'
                    /\ (attempts[c] < 3) <=> (pc'[c] = "backoff")
             /\ (pc[c] = "backoff" /\ pc'[c] # pc[c]) =>
                    /\ pc'[c] = "findUnique"
                    /\ attempts'[c] = attempts[c] + 1]_vars

C10_Witness ==
    \E c \in calls : pc[c] = "done" /\ Exhausted(c) /\ attempts[c] = 3

\* C11: every award call terminates, and when it has it has returned exactly
\* one response, which is Success (200), UserNotFound (404), InvalidRequest
\* (400) or a 500 (retries exhausted or unexpected failure); the retry loop
\* never exits without a response.
TerminalOutcome(r) ==
    \/ r.status = 200 /\ r.error = ""
    \/ r = ErrorResponse(404, "User not found")
    \/ r = ErrorResponse(400, "Invalid request data")
    \/ r = ErrorResponse(500, "Failed to add points after multiple attempts")
    \/ r = ErrorResponse(500, "Internal server error")

C11_TerminatesWithOutcome ==
    /\ [](\A c \in calls :
             /\ pc[c] = "done" => TerminalOutcome(response[c])
             /\ pc[c] # "done" => response[c] = NoResponse)
    /\ [][\A c \in calls :
             pc[c] = "done" => (pc'[c] = "done" /\ response'[c] = response[c])]_vars
    /\ <>AllDone

C11_Witness ==
    /\ AllDone
    /\ \E c \in calls, d \in calls :
          /\ Exhausted(c) /\ attempts[c] = 3
          /\ response[d] = ErrorResponse(500, "Internal server error")

\* A step in which call c's transaction attempt fails on the storage gateway
\* itself: neither a version-stamp conflict nor an absent row.
GatewayFailure(c) ==
    /\ pc[c] \in {"findUnique", "commit"}
    /\ pc'[c] \in {"backoff", "done"}
    /\ ~Succeeded(c)'
    /\ lastError'[c] = GatewayUnavailableError

\* C12 as stated: a failure in an attempt that is neither a conflict nor
\* user-not-found ends the call at once with a 500, without backoff wait and
\* without a further attempt.
C12_OtherFailuresNotRetried ==
    [][\A c \in AllCalls :
          GatewayFailure(c) =>
              /\ pc'[c] = "done"
              /\ response'[c].status = 500
              /\ waits'[c] = waits[c]]_vars

\* C12 amended: such a failure is handled like a conflict: on the first or
\* second attempt the call counts a retry and waits for the backoff, on the
\* third it answers the exhausted-retries 500.
C12_OtherFailuresRetried ==
    [][\A c \in AllCalls :
          GatewayFailure(c) =>
              IF attempts[c] < MAX_RETRIES
              THEN /\ pc'[c] = "backoff"
                   /\ retries'[c] = retries[c] + 1
                   /\ Len(waits'[c]) = Len(waits[c]) + 1
                   /\ response'[c] = NoResponse
              ELSE /\ pc'[c] = "done"
                   /\ Exhausted(c)'
                   /\ waits'[c] = waits[c]]_vars

C12_Witness ==
    \E c \in calls :
        /\ lastError[c] = GatewayUnavailableError
        /\ pc[c] = "done" /\ Succeeded(c)
        /\ attempts[c] = 2
        /\ Cardinality(calls) = 1

\* C13 as stated: every conflict of a call, the ones followed by a retry
\* included, writes a diagnostic log entry; the UserNotFound and
\* InvalidRequest outcomes write none.
C13_EveryConflictLogged ==
    \A c \in calls :
        /\ Len(logs[c]) = retries[c] + (IF Exhausted(c) THEN 1 ELSE 0)
        /\ response[c].status \in {400, 404} => logs[c] = <<>>

\* C13 amended: a diagnostic log entry is written only for the conflict that
\* exhausts the retry budget (the failure of the third attempt); conflicts
\* followed by a retry write none, nor do UserNotFound and InvalidRequest.
C13_OnlyExhaustionLogged ==
    \A c \in calls :
        logs[c] = IF Exhausted(c) THEN <<MaxRetriesLog>> ELSE <<>>

C13_Witness ==
    \E c \in calls, d \in calls :
        /\ Exhausted(c) /\ retries[c] = 2 /\ Len(logs[c]) = 1
        /\ Succeeded(d) /\ retries[d] = 2 /\ logs[d] = <<>>

\* C14: after each failed attempt that is not the last allowed one the call
\* waits 100 * 2^retries with retries already incremented: 200 before the
\* second attempt, 400 before the third, and nothing after the third failure.
C14_BackoffDelays ==
    \A c \in calls :
        /\ waits[c] = SubSeq(<<200, 400>>, 1, retries[c])
        /\ pc[c] = "backoff" => attempts[c] = retries[c]
        /\ Exhausted(c) => waits[c] = <<200, 400>>

C14_Witness ==
    \E c \in calls :
        /\ Exhausted(c)
        /\ waits[c] = <<200, 400>>
        /\ lastError[c] = RecordNotFoundError

\* C15: a call in its backoff wait has no open transaction (a transaction is
\* open exactly from its start to its commit or rollback), other calls can
\* read and commit while it waits, and the user table changes only by the
\* conditional update of an open transaction whose where clause matches.
C15_NoTransactionDuringBackoff ==
    /\ [](\A c \in calls :
             /\ pc[c] = "backoff" => ~txOpen[c]
             /\ txOpen[c] <=> pc[c] \in {"findUnique", "update", "commit"}
             /\ pc[c] = "backoff" =>
                    \A d \in calls \ {c} :
                        /\ pc[d] = "findUnique" => ENABLED ReadUser(d)
                        /\ (pc[d] = "commit" /\ WhereMatches(db[Id(d)], dbUser[d]))
                               => ENABLED CommitUpdate(d))
    /\ [][db' # db =>
             \E c \in calls :
                 /\ txOpen[c] /\ ~txOpen'[c]
                 /\ pc[c] = "commit"
                 /\ dbUser[c].lastPointsUpdateTimestamp
                        = db[Id(c)].lastPointsUpdateTimestamp
                 /\ db' = [db EXCEPT ![Id(c)] = db'[Id(c)]]]_vars

C15_Witness ==
    \E c \in calls, d \in calls :
        /\ pc[c] = "backoff" /\ ~txOpen[c] /\ retries[c] = 1
        /\ pc[d] = "done" /\ Succeeded(d) /\ firstRead[d] = 1
        /\ attempts[d] = 1 /\ version["u1"] = 2

\* C16: awards for different telegramIds are independent: a call's steps
\* change no row but its own user's, and a call that is the only one on its
\* user never conflicts, retries or fails, whatever calls on other users do.
AloneOnUser(c) ==
    /\ OnExistingUser(c)
    /\ \A d \in calls \ {c} : Malformed(req[d]) \/ Id(d) # Id(c)

C16_UsersIndependent ==
    /\ [](\A c \in calls :
             AloneOnUser(c) =>
                 /\ retries[c] = 0 /\ attempts[c] <= 1 /\ waits[c] = <<>>
                 /\ pc[c] = "done" => Succeeded(c))
    /\ [][\A c \in calls :
             (pc'[c] # pc[c] /\ ~Malformed(req[c])) =>
                 \A u \in DOMAIN db : u # Id(c) => db'[u] = db[u]]_vars

C16_Witness ==
    /\ calls = {1, 2}
    /\ Id(1) = "u1" /\ Id(2) = "u2"
    /\ Succeeded(1) /\ Succeeded(2)
    /\ db["u1"].lastPointsUpdateTimestamp = 1
    /\ db["u2"].lastPointsUpdateTimestamp = 2
    /\ db["u2"].points = InitialUsers["u2"].points + 20

\* C17: no step of any award call decreases a user's points or pointsBalance.
C17_PointsNeverDecrease ==
    [][\A u \in DOMAIN db :
          /\ db'[u].points >= db[u].points
          /\ db'[u].pointsBalance >= db[u].pointsBalance]_vars

C17_Witness ==
    \E c \in calls, d \in calls :
        /\ req[c] = [telegramId |-> Str("u2"), points |-> Num(-5)]
        /\ pc[c] = "done"
        /\ req[d] = [telegramId |-> Str("u2"), points |-> Num(20)]
        /\ Succeeded(d)
        /\ db["u2"].points > InitialUsers["u2"].points

\* C18: two awards with the same telegramId and the same points d on an
\* existing user, the second reading the row after the first has committed,
\* both succeed on their first attempt and add 2*d in total: nothing
\* suppresses the duplicate.
C18_NotIdempotent ==
    \A c \in calls, d \in calls :
        (/\ calls = {c, d} /\ c # d
         /\ req[c] = req[d] /\ OnExistingUser(c)
         /\ pc[c] = "done" /\ pc[d] = "done"
         /\ firstRead[d] = 1)
        => LET before == InitialUsers[Id(c)] IN
           /\ Succeeded(c) /\ Succeeded(d)
           /\ attempts[c] = 1 /\ attempts[d] = 1
           /\ db[Id(c)].pointsBalance = before.pointsBalance + 2 * Points(c)
           /\ db[Id(c)].points = before.points + 2 * Points(c)
           /\ response[d].updatedPointsBalance
                  = before.pointsBalance + 2 * Points(c)
           /\ response[d].pointsAdded = Points(c)

C18_Witness ==
    /\ calls = {1, 2}
    /\ req[1] = [telegramId |-> Str("u1"), points |-> Num(20)]
    /\ req[2] = req[1]
    /\ pc[1] = "done" /\ pc[2] = "done"
    /\ firstRead[2] = 1
    /\ db["u1"].pointsBalance = 140

ZeroAward(c) == c \in calls /\ OnExistingUser(c) /\ req[c].points = Num(0)

\* C19 as stated: an award of 0 points on an existing user returns success
\* with pointsAdded = 0 and never makes a concurrent award on the same user
\* conflict or retry.
C19_ZeroAwardIsNoOp ==
    \A c \in calls, d \in calls :
        (/\ calls = {c, d} /\ c # d
         /\ ZeroAward(c)
         /\ OnExistingUser(d) /\ Id(d) = Id(c))
        => /\ pc[c] = "done" => (Succeeded(c) /\ response[c].pointsAdded = 0)
           /\ retries[d] = 0

\* C19 amended: an award of 0 points on an existing user is never rejected
\* with 400; unless it exhausts its retries it returns success with
\* pointsAdded = 0; its steps leave points and pointsBalance unchanged, but
\* its commit writes lastPointsUpdateTimestamp like any other award (so a
\* concurrent award on the same user can conflict with it).
C19_ZeroAwardAccepted ==
    /\ [](\A c \in AllCalls :
             ZeroAward(c) =>
                 /\ response[c].status # 400
                 /\ pc[c] = "done" =>
                        \/ Exhausted(c)
                        \/ /\ Succeeded(c)
                           /\ response[c].pointsAdded = 0)
    /\ [][\A c \in AllCalls :
             (ZeroAward(c) /\ pc'[c] # pc[c]) =>
                 /\ \A u \in DOMAIN db :
                       /\ db'[u].points = db[u].points
                       /\ db'[u].pointsBalance = db[u].pointsBalance
                 /\ (pc[c] = "commit" /\ Succeeded(c)') =>
                       db'[Id(c)].lastPointsUpdateTimestamp = newStamp[c]]_vars

C19_Witness ==
    \E c \in calls, d \in calls :
        /\ ZeroAward(c) /\ Succeeded(c)
        /\ req[d] = [telegramId |-> Str("u1"), points |-> Num(20)]
        /\ Id(c) = "u1"
        /\ retries[d] = 1 /\ pc[d] = "backoff"
        /\ db["u1"].points = InitialUsers["u1"].points
        /\ db["u1"].lastPointsUpdateTimestamp = 1

\* C20: the welcome sender makes at most one outbound call per request and
\* never retries: a request without telegramId answers 400 and one without
\* BOT_TOKEN answers 500, both without an outbound call; otherwise exactly one
\* outbound call is made, whose failure (not-ok answer or thrown error) gives
\* 500 and whose success gives 200.
Missing(v) == v = UndefinedId \/ v = Str("")

C20_WelcomeSendsOnce ==
    \A w \in wcalls :
        /\ fetches[w] <= 1
        /\ (wreq[w].json /\ wpc[w] = "done") =>
              IF Missing(wreq[w].telegramId)
              THEN wresponse[w].status = 400 /\ fetches[w] = 0
              ELSE IF Missing(botToken)
              THEN wresponse[w].status = 500 /\ fetches[w] = 0
              ELSE /\ fetches[w] = 1
                   /\ fetchResult[w] = "ok" => wresponse[w].status = 200
                   /\ fetchResult[w] \in {"not ok", "threw"}
                          => wresponse[w].status = 500
                   /\ fetchResult[w] # "none"
        /\ (wreq[w].json /\ wpc[w] = "fetch") => fetches[w] = 1

C20_Witness ==
    \E v \in wcalls, w \in wcalls :
        /\ wpc[v] = "done" /\ wpc[w] = "done"
        /\ fetchResult[v] = "ok" /\ wresponse[v].status = 200
        /\ fetchResult[w] = "threw" /\ wresponse[w].status = 500
        /\ fetches[v] = 1 /\ fetches[w] = 1

\* ------------------------------------------------------------ C21
\* Claim-side reading of the fruit list: the point value and the name of the
\* fruit at an index.
PointValue(i) == fruits[i + 1].points
FruitName(i) == fruits[i + 1].name

Started(l) == l \in DOMAIN spins
Landed(l) == l \in DOMAIN spins /\ spins[l].pc = "landed"

\* C21: a spin ends only on its pre-selected target fruit and only once
\* 5000 ms have elapsed since its start; it runs at most one full cycle of
\* the fruit list (as many ticks as there are fruits) after that; on ending
\* it has called clickTriggered as many times as the target's point value,
\* zero times for "You Lost"; and every started spin eventually ends.
C21_SpinEndsOnTarget ==
    /\ [](\A l \in DOMAIN spins :
            /\ spins[l].lateTicks <= Len(fruits)
            /\ spins[l].pc # "landed" => spins[l].clicks = 0
            /\ spins[l].pc = "landed" =>
                  /\ spins[l].currentPosition = spins[l].targetFruit
                  /\ spins[l].stopElapsed >= 5000
                  /\ spins[l].clicks = PointValue(spins[l].targetFruit)
                  /\ FruitName(spins[l].targetFruit) = "You Lost"
                        => spins[l].clicks = 0)
    /\ \A l \in Spins : (Started(l) ~> Landed(l))

\* A spin that kept ticking through a full cycle after the minimum duration
\* and landed on a fruit that awards points, and a spin that landed on
\* "You Lost".
C21_Witness ==
    /\ \E l \in DOMAIN spins :
          /\ Landed(l)
          /\ spins[l].lateTicks = Len(fruits)
          /\ spins[l].clicks = 8
    /\ \E l \in DOMAIN spins :
          /\ Landed(l)
          /\ FruitName(spins[l].targetFruit) = "You Lost"
          /\ spins[l].clicks = 0

\* ------------------------------------------------------------ C22
ActiveLoops == {l \in DOMAIN spins : spins[l].pc = "ticking"}
InProgress(l) ==
    l \in DOMAIN spins /\ spins[l].pc \in {"ensureAudio", "ticking"}

\* C22: at most one tick loop is active at any time, no invocation made
\* while a spin is in progress starts a second one, and isSpinning is true
\* from the start of a spin until it lands.
C22_SingleSpinLoop ==
    /\ Cardinality(ActiveLoops) <= 1
    /\ Cardinality({l \in DOMAIN spins : InProgress(l)}) <= 1
    /\ \A l \in DOMAIN spins : InProgress(l) => gameState.isSpinning

====
